---------------------------- MODULE Spec2Model ----------------------------
(***************************************************************************)
(* A model of the Google Pay analyzer of src/crewai_app.py: the record     *)
(* extractor (GPPayAnalyzer.parse_html_content), the timeframe filter      *)
(* (GPPayAnalyzer.filter_by_timeframe), the aggregator                     *)
(* (analyze_transaction_data, get_quick_insights) and the insight facade   *)
(* (GPPayAnalyzer.analyze_with_crewai), around the one batch of records    *)
(* the analyzer holds.                                                     *)
(*                                                                         *)
(* A sentence is modelled as the sequence of its whitespace-separated      *)
(* tokens, and each regular expression of the extractor as the search it   *)
(* performs over these tokens.  A timeframe selector is modelled as the    *)
(* sequence of its characters, so that lower() and the `in` test are       *)
(* computed and not assumed.  Amounts are counted in hundredths of a       *)
(* rupee and averages are exact rationals: the rounding of the binary      *)
(* floating point of the program is outside the model.                     *)
(*                                                                         *)
(* Four specifications share the variables: Spec (the calls of the         *)
(* analyzer, one at a time), SpecWindow (the filter over long statements), *)
(* SpecTwin (two analyzers that parse) and SpecServer (the handlers of     *)
(* /upload, /analyze and /quick-insights, suspended at their file reads    *)
(* and resumed in any order over the one module-level analyzer).           *)
(***************************************************************************)
EXTENDS Integers, Sequences, FiniteSets, Bags, TLC

(***************************************************************************)
(* Bounds of the model.                                                    *)
(***************************************************************************)
\* the longest document of the catalogue, in blocks
MaxBlocks == 3
\* by how many records the long statements exceed each window of the filter
MaxExcess == 1

(***************************************************************************)
(* Tokens of a sentence.                                                   *)
(***************************************************************************)
\* a word: letters and digits that do not form a number or a currency token
W(s) == [k |-> "word", s |-> s]
\* a number written with the digits d
Num(d) == [k |-> "num", d |-> d]
\* the rupee sign followed by the characters int (digits and commas) and,
\* when frac is not empty, a point and the digits frac
Rs(int, frac) == [k |-> "rs", int |-> int, frac |-> frac]

\* the character ',' of an amount, whose other characters are the digits 0..9
Comma == 10

\* the words of the catalogue that end with "to" (the regular expression of
\* the recipient looks for the characters "to", not for the word)
EndsWithTo == {"to", "Zomato"}
\* the words that begin with the marker "using" or "on"
StartsWithMarker == {"using", "on"}
\* the words that end with "using"
EndsWithUsing == {"using"}
\* the words that begin with a run of the letter X (a masked account number)
StartsWithX == {"X", "XXXX1234"}
\* the words made of exactly three letters
ThreeLetters == {"You", "UPI", "Nov", "Feb"}

IsWord(t, S) == t.k = "word" /\ t.s \in S


(***************************************************************************)
(* General helpers.                                                        *)
(***************************************************************************)
Min(S) == CHOOSE x \in S : \A y \in S : x <= y
Max(S) == CHOOSE x \in S : \A y \in S : x >= y

\* the value of a sequence of decimal digits (0 for the empty sequence)
RECURSIVE DigitsValue(_)
DigitsValue(d) ==
    IF d = <<>> THEN 0
    ELSE 10 * DigitsValue(SubSeq(d, 1, Len(d) - 1)) + d[Len(d)]

\* the last n elements of s, or all of s when it is shorter
LastN(s, n) == SubSeq(s, Max({1, Len(s) - n + 1}), Len(s))

\* the longest suffix of s that holds no comma
RECURSIVE DigitSuffix(_)
DigitSuffix(s) ==
    IF s = <<>> \/ s[Len(s)] = Comma THEN <<>>
    ELSE Append(DigitSuffix(SubSeq(s, 1, Len(s) - 1)), s[Len(s)])

(***************************************************************************)
(* The four searches of parse_html_content.  A search returns <<>> when    *)
(* the pattern does not match and <<group>> when it does.                  *)
(***************************************************************************)
\* re.search(r'₹\s*([0-9,]+(?:\.[0-9]+)?)', text): the first rupee sign that
\* is followed by at least one digit or comma; the group is what follows it
AmountMatch(text) ==
    LET S == {i \in DOMAIN text : text[i].k = "rs" /\ text[i].int # <<>>}
    IN  IF S = {} THEN <<>> ELSE << text[Min(S)] >>

\* re.search(r'to\s+(.+?)(?:\s+using|\s+on)', text): the leftmost "to" that
\* ends a token and has a marker at least two tokens later; the group runs
\* lazily up to the first such marker
RecipientMatch(text) ==
    LET Marker(i) == {j \in DOMAIN text : j >= i + 2 /\ IsWord(text[j], StartsWithMarker)}
        S == {i \in DOMAIN text : IsWord(text[i], EndsWithTo) /\ Marker(i) # {}}
    IN  IF S = {} THEN <<>>
        ELSE << SubSeq(text, Min(S) + 1, Min(Marker(Min(S))) - 1) >>

\* the digits that end the token t, at most two of them: what (\d{1,2}) takes
\* in front of whitespace
TrailingDigits(t) ==
    CASE t.k = "num" -> LastN(t.d, 2)
      [] t.k = "rs" -> IF t.frac # <<>> THEN LastN(t.frac, 2)
                        ELSE LastN(DigitSuffix(t.int), 2)
      [] t.k = "word" -> IF t.s = "XXXX1234" THEN <<3, 4>> ELSE <<>>

\* re.search(r'(\d{1,2})\s+([A-Za-z]{3})\s+(\d{4})', text): the leftmost
\* token that ends with a digit, is followed by a token of three letters and
\* then by a token that begins with four digits
DateMatch(text) ==
    LET S == {i \in DOMAIN text :
                /\ i + 2 <= Len(text)
                /\ TrailingDigits(text[i]) # <<>>
                /\ IsWord(text[i + 1], ThreeLetters)
                /\ text[i + 2].k = "num" /\ Len(text[i + 2].d) >= 4}
    IN  IF S = {} THEN <<>>
        ELSE << [day |-> TrailingDigits(text[Min(S)]),
                 month |-> text[Min(S) + 1].s,
                 year |-> SubSeq(text[Min(S) + 2].d, 1, 4)] >>

\* whether the characters of token t all are of the class [A-Za-z0-9 \-&()/.]
InMethodClass(t) == t.k \in {"word", "num"}

\* re.search(r'using\s+([A-Za-z0-9 \-&()/.]+?)(?:\s+[Xx]+|\s*$)', text): after
\* the leftmost "using" for which it succeeds, the group runs lazily up to
\* the first token that begins with X, or to the end of the sentence, and
\* holds only characters of the class
MethodMatch(text) ==
    LET Stop(i) == Min({j \in (i + 2)..Len(text) : IsWord(text[j], StartsWithX)}
                         \cup {Len(text) + 1})
        S == {i \in DOMAIN text :
                /\ IsWord(text[i], EndsWithUsing)
                /\ i + 1 <= Len(text)
                /\ \A j \in (i + 1)..(Stop(i) - 1) : InMethodClass(text[j])}
    IN  IF S = {} THEN <<>>
        ELSE << SubSeq(text, Min(S) + 1, Stop(Min(S)) - 1) >>

(***************************************************************************)
(* The conversions of parse_html_content.  A conversion returns <<>> when  *)
(* the program raises ValueError and <<value>> otherwise.                  *)
(***************************************************************************)
\* s.replace(',', '')
RECURSIVE StripCommas(_)
StripCommas(s) ==
    IF s = <<>> THEN <<>>
    ELSE IF s[1] = Comma THEN StripCommas(Tail(s))
    ELSE <<s[1]>> \o StripCommas(Tail(s))

\* the hundredths a fraction of at most two digits stands for
FracHundredths(frac) ==
    CASE Len(frac) = 0 -> 0
      [] Len(frac) = 1 -> 10 * frac[1]
      [] OTHER -> 10 * frac[1] + frac[2]

\* float(amount_match.group(1).replace(',', '')), in hundredths: the empty
\* string, which a token made of commas leaves, is not a number
ToFloat(tok) ==
    IF StripCommas(tok.int) = <<>> /\ tok.frac = <<>> THEN <<>>
    ELSE << 100 * DigitsValue(StripCommas(tok.int)) + FracHundredths(tok.frac) >>

MonthAbbr == <<"Jan", "Feb", "Mar", "Apr", "May", "Jun",
               "Jul", "Aug", "Sep", "Oct", "Nov", "Dec">>

IsLeap(y) == (y % 4 = 0 /\ y % 100 # 0) \/ y % 400 = 0

DaysInMonth(y, m) ==
    CASE m = 2 -> IF IsLeap(y) THEN 29 ELSE 28
      [] m \in {4, 6, 9, 11} -> 30
      [] OTHER -> 31

\* datetime.strptime(f"{day} {month} {year}", "%d %b %Y"): the day is 1..31,
\* written with one or two digits, the month is one of the twelve
\* abbreviations, the year is at least 1, and the day exists in that month
Strptime(day, month, year) ==
    LET d == DigitsValue(day)
        y == DigitsValue(year)
        M == {m \in DOMAIN MonthAbbr : MonthAbbr[m] = month}
    IN  IF M = {} \/ d < 1 \/ d > 31 \/ y < 1 THEN <<>>
        ELSE IF d > DaysInMonth(y, Min(M)) THEN <<>>
        ELSE << [year |-> y, month |-> Min(M), day |-> d] >>

\* date_obj.strftime("%Y-%m-%d"), as the number whose digits are YYYYMMDD:
\* for the four-digit years of the catalogue the order of these numbers is
\* the order of the strings
Strftime(date) == date.year * 10000 + date.month * 100 + date.day

\* a numbering of the blocks that starts at 1
TxIdOneBased(i) == <<"tx_", i + 1>>

\* f"tx_{i}"
TxId(i) == <<"tx_", i>>

\* the sentinel of a payment method that was not found
DefaultMethod == << W("UPI") >>

(***************************************************************************)
(* parse_html_content.  A block is [body |-> <<>>] when it holds no        *)
(* sentence element and [body |-> <<text>>] when it does.                  *)
(***************************************************************************)
\* one round of the loop over the blocks: <<>> when the block is skipped,
\* <<record>> when it is appended
ParseBlock(block, i) ==
    IF block.body = <<>> THEN <<>>
    ELSE
      LET text == block.body[1]
          amount_match == AmountMatch(text)
          recipient_match == RecipientMatch(text)
          date_match == DateMatch(text)
          method_match == MethodMatch(text)
      IN  IF amount_match = <<>> \/ recipient_match = <<>> \/ date_match = <<>>
          THEN <<>>
          ELSE
            LET amount == ToFloat(amount_match[1])
                date_obj == Strptime(date_match[1].day, date_match[1].month,
                                     date_match[1].year)
            IN  IF amount = <<>> THEN <<>>
                ELSE IF date_obj = <<>> THEN <<>>
                ELSE << [amount |-> amount[1],
                         recipient |-> recipient_match[1],
                         date |-> Strftime(date_obj[1]),
                         payment_method |-> IF method_match = <<>> THEN DefaultMethod
                                            ELSE method_match[1],
                         id |-> TxId(i)] >>

\* a loop that ends at the first block it cannot turn into a record
ParseLoopAborting(blocks, lo, hi) ==
    LET skipped == {i \in lo..hi : ParseBlock(blocks[i], i - 1) = <<>>}
        last == IF skipped = {} THEN hi ELSE Min(skipped) - 1
        Rec[i \in (lo - 1)..last] ==
            IF i < lo THEN <<>> ELSE Rec[i - 1] \o ParseBlock(blocks[i], i - 1)
    IN  Rec[last]

\* the loop over enumerate(blocks), for the blocks of indices lo - 1 to
\* hi - 1: the records of the blocks, appended in block order (the range is
\* split in halves to keep the evaluation shallow)
RECURSIVE ParseLoop(_, _, _)
ParseLoop(blocks, lo, hi) ==
    IF lo > hi THEN <<>>
    ELSE IF lo = hi THEN ParseBlock(blocks[lo], lo - 1)
    ELSE LET mid == (lo + hi) \div 2
         IN  ParseLoop(blocks, lo, mid) \o ParseLoop(blocks, mid + 1, hi)

\* the record list parse_html_content builds from the blocks of a document
ParseHtmlContent(blocks) == ParseLoop(blocks, 1, Len(blocks))

(***************************************************************************)
(* The catalogue of blocks the documents of the model are made of.         *)
(***************************************************************************)
Sentence(text) == [body |-> <<text>>]

\* a block without a sentence element
NoSentence == [body |-> <<>>]

You == W("You")
Paid == W("paid")
To == W("to")
Using == W("using")
On == W("on")
Upi == W("UPI")
Y2024 == Num(<<2, 0, 2, 4>>)

\* "You paid ₹150.00 to Swiggy using HDFC Bank on 15 Nov 2024"
Swiggy150 == Sentence(<<You, Paid, Rs(<<1, 5, 0>>, <<0, 0>>), To, W("Swiggy"), Using,
                        W("HDFC"), W("Bank"), On, Num(<<1, 5>>), W("Nov"), Y2024>>)
\* "You paid ₹85.50 to Zomato using UPI on 14 Nov 2024"
Zomato85 == Sentence(<<You, Paid, Rs(<<8, 5>>, <<5, 0>>), To, W("Zomato"), Using, Upi,
                       On, Num(<<1, 4>>), W("Nov"), Y2024>>)
\* "You paid ₹200.00 to Amazon using Credit Card on 13 Nov 2024"
Amazon200 == Sentence(<<You, Paid, Rs(<<2, 0, 0>>, <<0, 0>>), To, W("Amazon"), Using,
                        W("Credit"), W("Card"), On, Num(<<1, 3>>), W("Nov"), Y2024>>)
\* "You paid ₹1,200 to Amazon using Bank Account XXXX1234 on 29 Feb 2024"
Masked1200 == Sentence(<<You, Paid, Rs(<<1, Comma, 2, 0, 0>>, <<>>), To, W("Amazon"),
                         Using, W("Bank"), W("Account"), W("XXXX1234"), On,
                         Num(<<2, 9>>), W("Feb"), Y2024>>)
\* "You paid ₹50 to X using UPI": no date
NoDate == Sentence(<<You, Paid, Rs(<<5, 0>>, <<>>), To, W("X"), Using, Upi>>)
\* "You paid to Cafe on 13 Nov 2024": no amount
NoAmount == Sentence(<<You, Paid, To, W("Cafe"), On, Num(<<1, 3>>), W("Nov"), Y2024>>)
\* "You received ₹10 on 12 Nov 2024": no recipient
NoRecipient == Sentence(<<You, W("received"), Rs(<<1, 0>>, <<>>), On, Num(<<1, 2>>),
                          W("Nov"), Y2024>>)
\* "You paid ₹200.00 to Amazon using UPI on 31 Feb 2024": no such day
BadDate == Sentence(<<You, Paid, Rs(<<2, 0, 0>>, <<0, 0>>), To, W("Amazon"), Using, Upi,
                      On, Num(<<3, 1>>), W("Feb"), Y2024>>)
\* "You paid ₹0.00 to Cafe using UPI on 13 Nov 2024": an amount of zero
ZeroAmount == Sentence(<<You, Paid, Rs(<<0>>, <<0, 0>>), To, W("Cafe"), Using, Upi, On,
                         Num(<<1, 3>>), W("Nov"), Y2024>>)
\* "You paid ₹, to Cafe on 13 Nov 2024": an amount that is no number
CommaAmount == Sentence(<<You, Paid, Rs(<<Comma>>, <<>>), To, W("Cafe"), On,
                          Num(<<1, 3>>), W("Nov"), Y2024>>)

Catalogue == <<Swiggy150, NoDate, Zomato85, ZeroAmount, NoSentence, Amazon200,
               BadDate, Masked1200, CommaAmount, NoAmount, NoRecipient>>

\* the sentences of a statement whose blocks all yield a record
Statement == <<Swiggy150, Masked1200, Zomato85, Amazon200>>

\* the document of n blocks that are consecutive blocks of the sequence
\* blocks, the first being the one of index start, the sequence being
\* taken up again at its end
Document(blocks, start, n) ==
    [i \in 1..n |-> blocks[((start + i - 1) % Len(blocks)) + 1]]

\* the documents of the model
Documents ==
    {Document(Catalogue, start, n) :
        start \in 0..(Len(Catalogue) - 1), n \in 0..MaxBlocks}

(***************************************************************************)
(* Timeframe selectors, as sequences of characters.                        *)
(***************************************************************************)
UpperLetters == <<"A", "B", "C", "D", "E", "F", "G", "H", "I", "J", "K", "L", "M",
                  "N", "O", "P", "Q", "R", "S", "T", "U", "V", "W", "X", "Y", "Z">>
LowerLetters == <<"a", "b", "c", "d", "e", "f", "g", "h", "i", "j", "k", "l", "m",
                  "n", "o", "p", "q", "r", "s", "t", "u", "v", "w", "x", "y", "z">>

\* str.lower()
Lower(s) ==
    [i \in DOMAIN s |->
        IF \E k \in DOMAIN UpperLetters : UpperLetters[k] = s[i]
        THEN LowerLetters[CHOOSE k \in DOMAIN UpperLetters : UpperLetters[k] = s[i]]
        ELSE s[i]]

\* str.upper()
Upper(s) ==
    [i \in DOMAIN s |->
        IF \E k \in DOMAIN LowerLetters : LowerLetters[k] = s[i]
        THEN UpperLetters[CHOOSE k \in DOMAIN LowerLetters : LowerLetters[k] = s[i]]
        ELSE s[i]]

\* sub in s
Contains(sub, s) ==
    \E i \in 1..(Len(s) - Len(sub) + 1) : SubSeq(s, i, i + Len(sub) - 1) = sub

StrAll == <<"a", "l", "l">>
StrMonth == <<"m", "o", "n", "t", "h">>
StrWeek == <<"w", "e", "e", "k">>
StrYear == <<"y", "e", "a", "r">>
StrThree == <<"t", "h", "r", "e", "e">>
StrDigit3 == <<"3">>
StrOne == <<"o", "n", "e">>
StrSpace == <<" ">>

\* the selectors of the model that are in lower case
LowerSelectors ==
    { StrAll,                                           \* "all"
      StrOne \o StrSpace \o StrMonth,                   \* "one month"
      StrThree \o StrSpace \o StrMonth \o <<"s">>,      \* "three months"
      StrDigit3 \o StrSpace \o StrMonth \o <<"s">>,     \* "3 months"
      StrOne \o StrSpace \o StrWeek,                    \* "one week"
      StrOne \o StrSpace \o StrYear,                    \* "one year"
      StrWeek \o StrSpace \o StrYear,                   \* "week year"
      StrYear \o StrSpace \o StrMonth,                  \* "year month"
      <<>>,                                             \* ""
      <<"t", "o", "d", "a", "y">> }                     \* "today"

\* the selectors of the model: the ones in lower case, and three of them in
\* upper case ("ALL", "THREE MONTHS", "ONE WEEK")
Selectors ==
    LowerSelectors \cup
    { Upper(StrAll),
      Upper(StrThree \o StrSpace \o StrMonth \o <<"s">>),
      Upper(StrOne \o StrSpace \o StrWeek) }

(***************************************************************************)
(* filter_by_timeframe.                                                    *)
(***************************************************************************)
MonthWindow == 30
ThreeMonthWindow == 90
WeekWindow == 7
YearWindow == 365
DefaultWindow == 30

\* sorted(txns, key=lambda x: x['date'], reverse=True): a stable sort, so the
\* records of the greatest of the dates come first, in the order they have
\* in txns, and then the sorted records of the other dates
RECURSIVE SortedFrom(_, _)
SortedFrom(txns, dates) ==
    IF dates = {} THEN <<>>
    ELSE LET newest == Max(dates)
             OfNewest(x) == x.date = newest
         IN  SelectSeq(txns, OfNewest) \o SortedFrom(txns, dates \ {newest})

\* a sort that forgets reverse=True
RECURSIVE SortedUpFrom(_, _)
SortedUpFrom(txns, dates) ==
    IF dates = {} THEN <<>>
    ELSE LET oldest == Min(dates)
             OfOldest(x) == x.date = oldest
         IN  SelectSeq(txns, OfOldest) \o SortedUpFrom(txns, dates \ {oldest})

SortedOldestFirst(txns) == SortedUpFrom(txns, {txns[i].date : i \in DOMAIN txns})

SortedNewestFirst(txns) == SortedFrom(txns, {txns[i].date : i \in DOMAIN txns})

\* s[:n]
Slice(s, n) == SubSeq(s, 1, IF Len(s) < n THEN Len(s) ELSE n)

\* a filter that tests "year" before "month" and "week"
FilterYearFirst(held, timeframe) ==
    IF timeframe = StrAll THEN [value |-> held, same |-> TRUE]
    ELSE IF held = <<>> THEN [value |-> <<>>, same |-> FALSE]
    ELSE
      LET sorted_txns == SortedFrom(held, {held[i].date : i \in DOMAIN held})
      IN  [same |-> FALSE,
           value |->
             IF Contains(StrYear, Lower(timeframe))
             THEN Slice(sorted_txns, YearWindow)
             ELSE IF Contains(StrMonth, Lower(timeframe))
             THEN IF Contains(StrThree, timeframe) \/ Contains(StrDigit3, timeframe)
                  THEN Slice(sorted_txns, ThreeMonthWindow)
                  ELSE Slice(sorted_txns, MonthWindow)
             ELSE IF Contains(StrWeek, Lower(timeframe))
             THEN Slice(sorted_txns, WeekWindow)
             ELSE Slice(sorted_txns, DefaultWindow)]

\* what filter_by_timeframe returns when the analyzer holds the list held:
\* value is the content of the returned list and same tells whether the
\* returned object is the held list itself
FilterByTimeframe(held, timeframe) ==
    IF timeframe = StrAll THEN [value |-> held, same |-> TRUE]
    ELSE IF held = <<>> THEN [value |-> <<>>, same |-> FALSE]
    ELSE
      LET sorted_txns == SortedNewestFirst(held)
      IN  [same |-> FALSE,
           value |->
             IF Contains(StrMonth, Lower(timeframe))
             THEN IF Contains(StrThree, timeframe) \/ Contains(StrDigit3, timeframe)
                  THEN Slice(sorted_txns, ThreeMonthWindow)
                  ELSE Slice(sorted_txns, MonthWindow)
             ELSE IF Contains(StrWeek, Lower(timeframe))
             THEN Slice(sorted_txns, WeekWindow)
             ELSE IF Contains(StrYear, Lower(timeframe))
             THEN Slice(sorted_txns, YearWindow)
             ELSE Slice(sorted_txns, DefaultWindow)]

(***************************************************************************)
(* The aggregator: analyze_transaction_data and the statistics of          *)
(* get_quick_insights and analyze_with_crewai.                             *)
(***************************************************************************)
\* df['amount'].sum() over the records lo..hi (by halves, to stay shallow)
RECURSIVE SumAmounts(_, _, _)
SumAmounts(records, lo, hi) ==
    IF lo > hi THEN 0
    ELSE IF lo = hi THEN records[lo].amount
    ELSE LET mid == (lo + hi) \div 2
         IN  SumAmounts(records, lo, mid) + SumAmounts(records, mid + 1, hi)

TotalSpend(records) == SumAmounts(records, 1, Len(records))

\* df['amount'].mean(), as the exact fraction num / den; a denominator of 0
\* stands for the NaN the mean of no value is
Mean(records) == [num |-> TotalSpend(records), den |-> Len(records)]

\* df['date'].min() and df['date'].max()
DateRange(records) ==
    [start |-> Min({records[i].date : i \in DOMAIN records}),
     end |-> Max({records[i].date : i \in DOMAIN records})]

\* an integer of Python and an integer of numpy
PyInt(n) == [type |-> "int", v |-> n]
NumpyInt64(n) == [type |-> "numpy.int64", v |-> n]

\* df[column].value_counts(): how often each value of the column occurs
ValueCounts(records, column) ==
    [v \in {records[i][column] : i \in DOMAIN records} |->
        Cardinality({i \in DOMAIN records : records[i][column] = v})]

\* dict(series): the values stay the numpy integers of the series (the
\* catalogue has no more recipients than head(5) keeps)
DictOfSeries(series) == [v \in DOMAIN series |-> NumpyInt64(series[v])]

\* series.to_dict(): the values become integers of Python
SeriesToDict(series) == [v \in DOMAIN series |-> PyInt(series[v])]

\* pd.to_datetime(date).dt.strftime('%Y-%m'), as the number YYYYMM
MonthOf(date) == date \div 100

\* df.groupby('month')['amount'].sum().to_dict()
MonthlySpend(records) ==
    [m \in {MonthOf(records[i].date) : i \in DOMAIN records} |->
        LET InMonth(x) == MonthOf(x.date) = m
        IN  TotalSpend(SelectSeq(records, InMonth))]

\* the dict analyze_transaction_data builds
Analysis(records) ==
    [total_spend |-> TotalSpend(records),
     average_transaction |-> Mean(records),
     transaction_count |-> Len(records),
     top_merchants |-> DictOfSeries(ValueCounts(records, "recipient")),
     monthly_trends |-> MonthlySpend(records),
     payment_methods |-> SeriesToDict(ValueCounts(records, "payment_method")),
     date_range |-> DateRange(records)]

\* json.dumps(analysis): <<text>>, or <<>> when it raises TypeError, which it
\* does for a value that is a numpy integer
JsonDumps(analysis) ==
    IF \E v \in DOMAIN analysis.top_merchants :
          analysis.top_merchants[v].type = "numpy.int64"
    THEN <<>>
    ELSE << analysis >>

\* the argument of analyze_transaction_data: a text that is the JSON of a
\* list of records, or a text that is no JSON
JsonOf(records) == [json |-> TRUE, records |-> records]
NotJson == [json |-> FALSE]

\* analyze_transaction_data: every exception of the body is caught and turned
\* into a text
AnalyzeTransactionData(transaction_data) ==
    IF ~transaction_data.json
    THEN [kind |-> "text", value |-> "Error analyzing data"]
    ELSE IF Len(transaction_data.records) = 0
    THEN [kind |-> "text", value |-> "No transactions to analyze"]
    ELSE LET dumped == JsonDumps(Analysis(transaction_data.records))
         IN  IF dumped = <<>>
             THEN [kind |-> "text", value |-> "Error analyzing data"]
             ELSE [kind |-> "json", value |-> dumped[1]]

\* the insights of get_quick_insights (top_merchant is not modelled)
QuickInsights(records) ==
    [total_spend |-> TotalSpend(records),
     average_transaction |-> Mean(records),
     transaction_count |-> Len(records),
     date_range |-> DateRange(records)]

(***************************************************************************)
(* analyze_with_crewai.                                                    *)
(***************************************************************************)
PreviewSize == 10

\* an analysis that does not test whether the filtered list is empty
AnalyzeWithCrewaiUnguarded(held, timeframe, llm, crew_ok) ==
    LET filtered_txns == FilterByTimeframe(held, timeframe).value
    IN  IF ~llm
        THEN [value |-> [total_spend |-> TotalSpend(filtered_txns),
                         average_transaction |-> Mean(filtered_txns),
                         total_transactions |-> Len(filtered_txns),
                         ai_engine |-> "Basic Analysis (LLM not configured)"],
              stats |-> TRUE, kickoff |-> FALSE]
        ELSE IF crew_ok
        THEN [value |-> [task_data |-> Slice(filtered_txns, PreviewSize),
                         total_transactions |-> Len(filtered_txns),
                         ai_engine |-> "CrewAI with Gemini"],
              stats |-> FALSE, kickoff |-> TRUE]
        ELSE [value |-> [error |-> "CrewAI analysis failed"],
              stats |-> FALSE, kickoff |-> TRUE]

\* what analyze_with_crewai returns when the analyzer holds the list held:
\* value is the returned dict, stats tells whether statistics were computed
\* and kickoff whether the crew was run.  crew_ok is the outcome of the
\* crew, which the program does not decide: it returns or it raises
AnalyzeWithCrewai(held, timeframe, llm, crew_ok) ==
    LET filtered_txns == FilterByTimeframe(held, timeframe).value
    IN  IF filtered_txns = <<>>
        THEN [value |-> [error |-> "No transactions found for timeframe",
                         timeframe |-> timeframe],
              stats |-> FALSE, kickoff |-> FALSE]
        ELSE IF ~llm
        THEN [value |-> [total_spend |-> TotalSpend(filtered_txns),
                         average_transaction |-> Mean(filtered_txns),
                         total_transactions |-> Len(filtered_txns),
                         ai_engine |-> "Basic Analysis (LLM not configured)"],
              stats |-> TRUE, kickoff |-> FALSE]
        ELSE IF crew_ok
        THEN [value |-> [task_data |-> Slice(filtered_txns, PreviewSize),
                         total_transactions |-> Len(filtered_txns),
                         ai_engine |-> "CrewAI with Gemini"],
              stats |-> FALSE, kickoff |-> TRUE]
        ELSE [value |-> [error |-> "CrewAI analysis failed"],
              stats |-> FALSE, kickoff |-> TRUE]

(***************************************************************************)
(* get_quick_insights.                                                     *)
(***************************************************************************)
HttpBadRequest == 400
HttpServerError == 500
HttpOk == 200

\* the response of get_quick_insights once the file is parsed into the list
\* transactions: the HTTPException raised inside the try block for an empty
\* list is an Exception, so the except clause turns it into a server error
GetQuickInsights(transactions) ==
    IF transactions = <<>>
    THEN [status |-> HttpServerError,
          detail |-> <<"Error generating insights: ",
                       [status |-> HttpBadRequest,
                        detail |-> "No transactions found in HTML file"]>>]
    ELSE [status |-> HttpOk, insights |-> QuickInsights(transactions)]

(***************************************************************************)
(* The state: the module-level analyzer and what the last call returned.   *)
(***************************************************************************)
VARIABLES
    gemini_llm,     \* whether the module configured an LLM
    transactions,   \* analyzer.transactions: the batch the analyzer holds
    last_parsed,    \* the list the most recent parse_html_content returned
    had_records,    \* whether the batch that call replaced held a record
    ret,            \* what the last call returned: [kind, value]
    ret_is_held,    \* whether the returned object is analyzer.transactions
    op,             \* the last call: its name and arguments
    twin,           \* a second GPPayAnalyzer and its last parse_html_content
    awaiting        \* the handlers suspended at their await file.read()

vars == <<gemini_llm, transactions, last_parsed, had_records, ret, ret_is_held, op,
         twin, awaiting>>

\* GPPayAnalyzer.__init__
Init ==
    /\ gemini_llm \in BOOLEAN
    /\ transactions = <<>>
    /\ last_parsed = <<>>
    /\ had_records = FALSE
    /\ ret = [kind |-> "none"]
    /\ ret_is_held = FALSE
    /\ op = [name |-> "__init__"]
    /\ twin = [called |-> FALSE, transactions |-> <<>>]
    /\ awaiting = EmptyBag

\* a store that appends the new batch to the held one
StoreBatchAppending(held, batch) == held \o batch

\* a store that keeps a batch that is already held
StoreBatchKeeping(held, batch) == IF held = <<>> THEN batch ELSE held

\* self.transactions = transactions: the new batch replaces the held one
StoreBatch(held, batch) == batch

\* the record list of each document of the model
Parsed == [html_content \in Documents |-> ParseHtmlContent(html_content)]

\* analyzer.parse_html_content(html_content)
ParseCall(html_content) ==
    LET batch == Parsed[html_content]
    IN  /\ transactions' = StoreBatch(transactions, batch)
        /\ last_parsed' = batch
        /\ had_records' = (transactions # <<>>)
        /\ ret' = [kind |-> "records", value |-> batch]
        /\ ret_is_held' = TRUE
        /\ op' = [name |-> "parse_html_content", html_content |-> html_content]
        /\ UNCHANGED <<gemini_llm, twin, awaiting>>

\* analyzer.filter_by_timeframe(timeframe)
FilterCall(timeframe) ==
    LET filtered == FilterByTimeframe(transactions, timeframe)
    IN  /\ ret' = [kind |-> "records", value |-> filtered.value]
        /\ ret_is_held' = filtered.same
        /\ op' = [name |-> "filter_by_timeframe", timeframe |-> timeframe]
        /\ UNCHANGED <<gemini_llm, transactions, last_parsed, had_records, twin, awaiting>>

\* analyzer.analyze_with_crewai(query, timeframe)
CrewaiCall(timeframe, crew_ok) ==
    LET result == AnalyzeWithCrewai(transactions, timeframe, gemini_llm, crew_ok)
    IN  /\ ret' = [kind |-> "dict", value |-> result.value]
        /\ ret_is_held' = FALSE
        /\ op' = [name |-> "analyze_with_crewai", timeframe |-> timeframe,
                  stats |-> result.stats, kickoff |-> result.kickoff]
        /\ UNCHANGED <<gemini_llm, transactions, last_parsed, had_records, twin, awaiting>>

\* the texts the tool is called with: no JSON, or the JSON of the first
\* records of the held batch, in their order or reversed
Reverse(s) == [i \in DOMAIN s |-> s[Len(s) + 1 - i]]

ToolInputs ==
    {NotJson} \cup
    {JsonOf(r) : r \in {SubSeq(transactions, 1, n) : n \in 0..Len(transactions)}
                       \cup {Reverse(transactions)}}

\* analyze_transaction_data(transaction_data)
ToolCall(transaction_data) ==
    /\ ret' = AnalyzeTransactionData(transaction_data)
    /\ ret_is_held' = FALSE
    /\ op' = [name |-> "analyze_transaction_data", transaction_data |-> transaction_data]
    /\ UNCHANGED <<gemini_llm, transactions, last_parsed, had_records, twin, awaiting>>

\* POST /quick-insights with a file whose name does not end with .html
QuickInsightsRefused ==
    /\ ret' = [kind |-> "http",
               value |-> [status |-> HttpBadRequest,
                          detail |-> "Please upload an HTML file"]]
    /\ ret_is_held' = FALSE
    /\ op' = [name |-> "get_quick_insights", html_name |-> FALSE]
    /\ UNCHANGED <<gemini_llm, transactions, last_parsed, had_records, twin, awaiting>>

\* POST /quick-insights with a file whose name ends with .html
QuickInsightsCall(html_content) ==
    LET batch == Parsed[html_content]
    IN  /\ transactions' = StoreBatch(transactions, batch)
        /\ last_parsed' = batch
        /\ had_records' = (transactions # <<>>)
        /\ ret' = [kind |-> "http", value |-> GetQuickInsights(batch)]
        /\ ret_is_held' = FALSE
        /\ op' = [name |-> "get_quick_insights", html_name |-> TRUE,
                  html_content |-> html_content]
        /\ UNCHANGED <<gemini_llm, twin, awaiting>>

\* the outcomes the crew can have: it is run only when an LLM is configured
CrewOutcomes == IF gemini_llm THEN BOOLEAN ELSE {TRUE}

Next ==
    \/ \E html_content \in Documents : ParseCall(html_content)
    \/ \E timeframe \in Selectors : FilterCall(timeframe)
    \/ \E timeframe \in Selectors, crew_ok \in CrewOutcomes :
          CrewaiCall(timeframe, crew_ok)
    \/ \E transaction_data \in ToolInputs : ToolCall(transaction_data)
    \/ QuickInsightsRefused
    \/ \E html_content \in Documents : QuickInsightsCall(html_content)

Spec == Init /\ [][Next]_vars

(***************************************************************************)
(* The analyzer after it parsed a long statement, and the filter applied   *)
(* to the batch it then holds.                                             *)
(***************************************************************************)
Windows == {WeekWindow, MonthWindow, ThreeMonthWindow, YearWindow, DefaultWindow}

\* statements of as many records as a window holds, of up to MaxExcess
\* records more, and of up to MaxExcess records
Statements ==
    {Document(Statement, start, w + excess) :
        start \in 0..(Len(Statement) - 1), w \in Windows \cup {0},
        excess \in 0..MaxExcess}

\* the state in which analyzer.parse_html_content(html_content) leaves an
\* analyzer that was just constructed
InitStatement ==
    \E html_content \in Statements :
        /\ gemini_llm \in BOOLEAN
        /\ transactions = StoreBatch(<<>>, ParseHtmlContent(html_content))
        /\ last_parsed = ParseHtmlContent(html_content)
        /\ had_records = FALSE
        /\ ret = [kind |-> "records", value |-> transactions]
        /\ ret_is_held = TRUE
        /\ op = [name |-> "parse_html_content", html_content |-> html_content]
        /\ twin = [called |-> FALSE, transactions |-> <<>>]
        /\ awaiting = EmptyBag

NextWindow == \E timeframe \in Selectors : FilterCall(timeframe)

SpecWindow == InitStatement /\ [][NextWindow]_vars

(***************************************************************************)
(* Two analyzers: the module-level one and a second GPPayAnalyzer, each    *)
(* parsing documents of its own choice.                                    *)
(***************************************************************************)
\* parse_html_content(html_content) on the second analyzer
TwinParseCall(html_content) ==
    LET batch == Parsed[html_content]
    IN  /\ twin' = [called |-> TRUE,
                    html_content |-> html_content,
                    ret |-> batch,
                    transactions |-> StoreBatch(twin.transactions, batch),
                    had_records |-> (twin.transactions # <<>>)]
        /\ UNCHANGED <<gemini_llm, transactions, last_parsed, had_records, ret,
                       ret_is_held, op, awaiting>>

NextTwin ==
    \/ \E html_content \in Documents : ParseCall(html_content)
    \/ \E html_content \in Documents : TwinParseCall(html_content)

SpecTwin == Init /\ [][NextTwin]_vars

(***************************************************************************)
(* The HTTP server: the three endpoints that take a file share the         *)
(* module-level analyzer.  A handler runs without interruption up to its   *)
(* await file.read(), is suspended there while other handlers run, and     *)
(* once resumed runs without interruption to its response: the calls it    *)
(* makes after the await (parse_html_content, analyze_with_crewai,         *)
(* crew.kickoff) are not awaited.                                          *)
(***************************************************************************)
\* how many handlers can be suspended at the same time
MaxRequests == 3

\* transactions[:5] of upload_html
UploadPreview == 5

\* the files the requests carry: one block that yields no record, three
\* blocks that yield two records, and a statement of one record more than
\* the window of a week
Uploads ==
    { <<NoDate>>,
      <<Swiggy150, NoDate, Zomato85>>,
      Document(Statement, 1, WeekWindow + 1) }

\* the record list of each file
ParsedUploads == [html_content \in Uploads |-> ParseHtmlContent(html_content)]

Endpoints == {"upload_html", "analyze_transactions", "get_quick_insights"}

\* the query and the timeframe of the forms sent to /analyze: no query, the
\* query "WEEK" with the default timeframe, and the query "month" with the
\* timeframe "one year"
AnalyzeForms ==
    { [query |-> <<>>, timeframe |-> StrAll],
      [query |-> Upper(StrWeek), timeframe |-> StrAll],
      [query |-> StrMonth, timeframe |-> StrOne \o StrSpace \o StrYear] }

\* raise HTTPException(status_code=400, detail="Please upload an HTML file"),
\* which is raised outside the try block
NotHtml == [status |-> HttpBadRequest, detail |-> "Please upload an HTML file"]

\* the HTTPException that the except clause of a handler makes of the
\* HTTPException raised inside its try block for an empty list
WrappedNoTransactions(prefix) ==
    [status |-> HttpServerError,
     detail |-> <<prefix, [status |-> HttpBadRequest,
                           detail |-> "No transactions found in HTML file"]>>]

\* the response of upload_html once the file is parsed into the list records
UploadHtml(records) ==
    IF records = <<>>
    THEN WrappedNoTransactions("Error processing file: ")
    ELSE [status |-> HttpOk,
          summary |-> [total_transactions |-> Len(records),
                       total_amount |-> TotalSpend(records),
                       date_range |-> DateRange(records)],
          transactions |-> Slice(records, UploadPreview)]

\* the timeframe analyze_transactions passes on: detected from the query
\* when the form leaves the timeframe at "all"
DetectTimeframe(query, timeframe) ==
    IF timeframe = StrAll /\ query # <<>>
    THEN IF Contains(StrMonth, Lower(query)) THEN StrOne \o StrSpace \o StrMonth
         ELSE IF Contains(StrWeek, Lower(query)) THEN StrOne \o StrSpace \o StrWeek
         ELSE IF Contains(StrYear, Lower(query)) THEN StrOne \o StrSpace \o StrYear
         ELSE timeframe
    ELSE timeframe

\* the response of analyze_transactions once the file is parsed into the
\* list records, the analyzer then holding the list held, which is the one
\* analyze_with_crewai reads
AnalyzeTransactions(held, records, query, timeframe, llm, crew_ok) ==
    IF records = <<>>
    THEN WrappedNoTransactions("Error analyzing transactions: ")
    ELSE LET detected == DetectTimeframe(query, timeframe)
         IN  [status |-> HttpOk,
              timeframe |-> detected,
              total_transactions_parsed |-> Len(records),
              insights |-> AnalyzeWithCrewai(held, detected, llm, crew_ok).value]

\* a handler suspended at its await: the endpoint and the file of the request
Handler(endpoint, html_content) ==
    [endpoint |-> endpoint, html_content |-> html_content]

\* the suspended handlers once h is resumed
Resumed(h) == awaiting (-) SetToBag({h})

\* whether the last step was the response of a handler that was resumed: the
\* handlers that are suspended now were suspended while it wrote
\* analyzer.transactions
AfterResume == op.name \in Endpoints /\ op.html_name

\* a request whose file name does not end with .html: the handler raises
\* before it reads the file
Refuse(endpoint) ==
    /\ ret' = [kind |-> "http", value |-> NotHtml]
    /\ ret_is_held' = FALSE
    /\ op' = [name |-> endpoint, html_name |-> FALSE]
    /\ UNCHANGED <<gemini_llm, transactions, last_parsed, had_records, twin, awaiting>>

\* a request whose file name ends with .html: the handler runs up to
\* content = await file.read()
Receive(endpoint, html_content) ==
    /\ BagCardinality(awaiting) < MaxRequests
    /\ awaiting' = awaiting (+) SetToBag({Handler(endpoint, html_content)})
    /\ ret' = [kind |-> "none"]
    /\ ret_is_held' = FALSE
    /\ op' = [name |-> "await file.read()", endpoint |-> endpoint,
              html_content |-> html_content]
    /\ UNCHANGED <<gemini_llm, transactions, last_parsed, had_records, twin>>

\* upload_html from the end of its await to its response
UploadResume(h) ==
    LET batch == ParsedUploads[h.html_content]
    IN  /\ h.endpoint = "upload_html"
        /\ awaiting' = Resumed(h)
        /\ transactions' = StoreBatch(transactions, batch)
        /\ last_parsed' = batch
        /\ had_records' = (transactions # <<>>)
        /\ ret' = [kind |-> "http", value |-> UploadHtml(batch)]
        /\ ret_is_held' = FALSE
        /\ op' = [name |-> h.endpoint, html_name |-> TRUE,
                  html_content |-> h.html_content, overtaken |-> AfterResume]
        /\ UNCHANGED <<gemini_llm, twin>>

\* analyze_transactions from the end of its await to its response; the form
\* is not read before the handler is resumed
AnalyzeResume(h, form, crew_ok) ==
    LET batch == ParsedUploads[h.html_content]
    IN  /\ h.endpoint = "analyze_transactions"
        /\ awaiting' = Resumed(h)
        /\ transactions' = StoreBatch(transactions, batch)
        /\ last_parsed' = batch
        /\ had_records' = (transactions # <<>>)
        /\ ret' = [kind |-> "http",
                   value |-> AnalyzeTransactions(transactions', batch, form.query,
                                                 form.timeframe, gemini_llm, crew_ok)]
        /\ ret_is_held' = FALSE
        /\ op' = [name |-> h.endpoint, html_name |-> TRUE,
                  html_content |-> h.html_content, overtaken |-> AfterResume,
                  query |-> form.query, timeframe |-> form.timeframe]
        /\ UNCHANGED <<gemini_llm, twin>>

\* get_quick_insights from the end of its await to its response
QuickInsightsResume(h) ==
    LET batch == ParsedUploads[h.html_content]
    IN  /\ h.endpoint = "get_quick_insights"
        /\ awaiting' = Resumed(h)
        /\ transactions' = StoreBatch(transactions, batch)
        /\ last_parsed' = batch
        /\ had_records' = (transactions # <<>>)
        /\ ret' = [kind |-> "http", value |-> GetQuickInsights(batch)]
        /\ ret_is_held' = FALSE
        /\ op' = [name |-> h.endpoint, html_name |-> TRUE,
                  html_content |-> h.html_content, overtaken |-> AfterResume]
        /\ UNCHANGED <<gemini_llm, twin>>

\* the outcomes of the crew for the file of h: the crew is run only when an
\* LLM is configured and the file yields a record
CrewOutcomesOf(h) ==
    IF gemini_llm /\ ParsedUploads[h.html_content] # <<>> THEN BOOLEAN ELSE {TRUE}

NextServer ==
    \/ \E endpoint \in Endpoints : Refuse(endpoint)
    \/ \E endpoint \in Endpoints, html_content \in Uploads :
          Receive(endpoint, html_content)
    \/ \E h \in BagToSet(awaiting) : UploadResume(h)
    \/ \E h \in BagToSet(awaiting), form \in AnalyzeForms :
          \E crew_ok \in CrewOutcomesOf(h) : AnalyzeResume(h, form, crew_ok)
    \/ \E h \in BagToSet(awaiting) : QuickInsightsResume(h)

SpecServer == Init /\ [][NextServer]_vars

(***************************************************************************)
(* Properties.                                                             *)
(***************************************************************************)
AfterParse == op.name = "parse_html_content"
AfterFilter == op.name = "filter_by_timeframe"
AfterCrewai == op.name = "analyze_with_crewai"
AfterTool == op.name = "analyze_transaction_data"
AfterQuickInsights == op.name = "get_quick_insights" /\ op.html_name

\* the indices, from 1, of the blocks of a document that have a sentence
\* element in which the amount, the recipient and the date are found, whose
\* amount is a number and whose date exists
Emitting(blocks) ==
    {i \in DOMAIN blocks :
        /\ blocks[i].body # <<>>
        /\ AmountMatch(blocks[i].body[1]) # <<>>
        /\ RecipientMatch(blocks[i].body[1]) # <<>>
        /\ DateMatch(blocks[i].body[1]) # <<>>
        /\ ToFloat(AmountMatch(blocks[i].body[1])[1]) # <<>>
        /\ LET d == DateMatch(blocks[i].body[1])[1]
           IN  Strptime(d.day, d.month, d.year) # <<>>}

\* the k-th smallest element of the set S of numbers
Nth(S, k) == CHOOSE x \in S : Cardinality({y \in S : y < x}) = k - 1

\* the fields of a record other than its id
Content(r) == [amount |-> r.amount, recipient |-> r.recipient, date |-> r.date,
               payment_method |-> r.payment_method]

\* C1: after any sequence of parse_html_content calls the batch the analyzer
\* holds is exactly the list the most recent call returned, whatever was held
\* before, and filter_by_timeframe returns what it returns on that list.
C1_HeldIsLastParsed ==
    /\ transactions = last_parsed
    /\ AfterParse => ret.value = transactions
    /\ AfterFilter => ret.value = FilterByTimeframe(last_parsed, op.timeframe).value

\* a call that extracted no record replaced a batch that held records, and
\* the filter then returns nothing
C1_Witness ==
    /\ AfterFilter /\ op.timeframe = StrAll
    /\ had_records /\ last_parsed = <<>> /\ transactions = <<>> /\ ret.value = <<>>

\* C2: every record parse_html_content emits has an amount above zero.
C2_AmountsPositive ==
    \A i \in DOMAIN last_parsed : last_parsed[i].amount > 0

\* C3: the records a call emits are, in block order, those of the blocks that
\* have a sentence element, match the three patterns, have a date that exists
\* and do not raise; every other block adds nothing, and the record of a
\* block is the one the block yields in a document of its own.
C3_AllOrNothingPerBlock ==
    AfterParse =>
        LET blocks == op.html_content
            kept == Emitting(blocks)
        IN  /\ Len(ret.value) = Cardinality(kept)
            /\ \A k \in DOMAIN ret.value :
                  LET alone == ParseHtmlContent(<< blocks[Nth(kept, k)] >>)
                  IN  /\ Len(alone) = 1
                      /\ Content(ret.value[k]) = Content(alone[1])

\* a document whose first block has no such date and whose third block
\* raises yields the record of its second block
C3_Witness ==
    /\ AfterParse
    /\ op.html_content = <<BadDate, Masked1200, CommaAmount>>
    /\ Len(ret.value) = 1
    /\ ret.value[1].amount = 120000 /\ ret.value[1].date = 20240229

\* C4: the ids of the records of one call are pairwise distinct, each is
\* "tx_" followed by the index, from 0, of its block among all blocks of the
\* document, and so the indices increase along the list.
C4_PositionalIds ==
    AfterParse =>
        LET kept == Emitting(op.html_content)
        IN  /\ \A k \in DOMAIN ret.value :
                  k <= Cardinality(kept) => ret.value[k].id = <<"tx_", Nth(kept, k) - 1>>
            /\ \A j, k \in DOMAIN ret.value :
                  j < k => /\ ret.value[j].id # ret.value[k].id
                           /\ ret.value[j].id[2] < ret.value[k].id[2]

\* a skipped block in front of two records: their ids are tx_1 and tx_2
C4_Witness ==
    /\ AfterParse
    /\ op.html_content = <<NoDate, Zomato85, ZeroAmount>>
    /\ Len(ret.value) = 2
    /\ ret.value[1].id = <<"tx_", 1>> /\ ret.value[2].id = <<"tx_", 2>>

\* whether two lists hold the same records, in whatever order
SameRecords(a, b) ==
    /\ Len(a) = Len(b)
    /\ {a[i] : i \in DOMAIN a} = {b[i] : i \in DOMAIN b}

\* C5: two selectors that differ only in the case of their letters select
\* the same records.
C5_CaseInsensitive ==
    AfterFilter =>
        \A other \in Selectors :
            Lower(other) = Lower(op.timeframe) =>
                SameRecords(FilterByTimeframe(transactions, other).value, ret.value)

\* the window C6 gives for a selector in lower case other than "all"
WindowOfClaim(selector) ==
    IF Contains(StrMonth, selector)
    THEN IF Contains(StrThree, selector) \/ Contains(StrDigit3, selector)
         THEN 90 ELSE 30
    ELSE IF Contains(StrWeek, selector) THEN 7
    ELSE IF Contains(StrYear, selector) THEN 365
    ELSE 30

\* C6: for a selector in lower case the filter returns the whole batch,
\* unchanged, when the selector is "all", and otherwise as many records as
\* the batch has, up to the window of the selector.
C6_WindowSizes ==
    (AfterFilter /\ op.timeframe \in LowerSelectors) =>
        IF op.timeframe = StrAll THEN ret.value = transactions
        ELSE Len(ret.value) = Min({Len(transactions), WindowOfClaim(op.timeframe)})

\* a batch of more than 365 records, cut to 365 by "one year"
C6_Witness ==
    /\ AfterFilter /\ op.timeframe = StrOne \o StrSpace \o StrYear
    /\ Len(transactions) > 365 /\ Len(ret.value) = 365

\* C7: "one week" returns min(7, n) records of the batch, each taken once,
\* ordered by date from the newest on, and none of the records it leaves
\* out is newer than one it returns.
C7_OneWeekMostRecent ==
    (AfterFilter /\ op.timeframe = StrOne \o StrSpace \o StrWeek) =>
        LET held == {transactions[i] : i \in DOMAIN transactions}
            returned == {ret.value[i] : i \in DOMAIN ret.value}
        IN  /\ Len(ret.value) = Min({7, Len(transactions)})
            /\ \A i \in 1..(Len(ret.value) - 1) : ret.value[i].date >= ret.value[i + 1].date
            /\ returned \subseteq held
            /\ \A r \in returned :
                  Cardinality({i \in DOMAIN ret.value : ret.value[i] = r})
                    <= Cardinality({i \in DOMAIN transactions : transactions[i] = r})
            /\ \A r \in returned, x \in held \ returned : r.date >= x.date

\* a batch of more than seven records of several dates that does not begin
\* with its newest record: seven records are returned, of several dates, and
\* a record of the oldest of these dates is left out
C7_Witness ==
    /\ AfterFilter /\ op.timeframe = StrOne \o StrSpace \o StrWeek
    /\ Len(transactions) > 7 /\ Len(ret.value) = 7
    /\ ret.value[1].date > ret.value[7].date
    /\ transactions[1].date < ret.value[1].date
    /\ \E i \in DOMAIN transactions :
          /\ transactions[i].date = ret.value[7].date
          /\ \A k \in DOMAIN ret.value : ret.value[k] # transactions[i]

\* C8: the filter leaves the held batch as it was and returns a list that is
\* not the held list, empty when the held batch is empty.
C8_FilterReturnsNewList ==
    AfterFilter =>
        /\ transactions = last_parsed
        /\ ~ret_is_held
        /\ transactions = <<>> => ret.value = <<>>

\* C9: on no record analyze_transaction_data returns its marker, and on an
\* empty filtered list analyze_with_crewai returns an error without having
\* computed statistics or run the crew; no mean that is returned is NaN.
C9_EmptyInputIsAMarker ==
    /\ (AfterTool /\ op.transaction_data.json /\ op.transaction_data.records = <<>>)
          => ret = [kind |-> "text", value |-> "No transactions to analyze"]
    /\ (AfterCrewai /\ FilterByTimeframe(transactions, op.timeframe).value = <<>>)
          => /\ DOMAIN ret.value = {"error", "timeframe"}
             /\ ~op.stats /\ ~op.kickoff
    /\ (AfterCrewai /\ op.stats) => ret.value.average_transaction.den > 0

\* the analysis of the empty batch a call left that replaced a batch of records
C9_Witness ==
    /\ AfterCrewai /\ had_records /\ transactions = <<>>
    /\ op.timeframe = StrOne \o StrSpace \o StrWeek
    /\ "error" \in DOMAIN ret.value

\* whether summary reports the count, the total, the mean and the date range
\* of the records
Summarizes(summary, records) ==
    /\ summary.transaction_count = Len(records)
    /\ summary.total_spend = TotalSpend(records)
    /\ summary.average_transaction.den > 0
    /\ summary.average_transaction.num * Len(records)
          = summary.total_spend * summary.average_transaction.den
    /\ \A i \in DOMAIN records :
          /\ summary.date_range.start <= records[i].date
          /\ records[i].date <= summary.date_range.end
    /\ \E i \in DOMAIN records : summary.date_range.start = records[i].date
    /\ \E i \in DOMAIN records : summary.date_range.end = records[i].date

\* C10: for records that are not none, analyze_transaction_data and
\* get_quick_insights report the count, the total, the mean and the date
\* range of the records, whatever the order of the records.
C10_SummaryOfRecords ==
    /\ (AfterTool /\ op.transaction_data.json /\ op.transaction_data.records # <<>>)
          => /\ ret.kind = "json"
             /\ Summarizes(ret.value, op.transaction_data.records)
             /\ Summarizes(ret.value, Reverse(op.transaction_data.records))
    /\ (AfterQuickInsights /\ transactions # <<>>)
          => /\ ret.value.status = HttpOk
             /\ Summarizes(ret.value.insights, transactions)
             /\ Summarizes(ret.value.insights, Reverse(transactions))

C12_ResponseOfOwnDocument ==
    AfterResume =>
        LET own == ParsedUploads[op.html_content]
            response == ret.value
        IN  /\ (response.status = HttpOk) <=> (own # <<>>)
            /\ (response.status = HttpOk /\ op.name = "upload_html") =>
                  /\ response.summary.total_transactions = Len(own)
                  /\ response.summary.total_amount = TotalSpend(own)
                  /\ response.summary.date_range = DateRange(own)
                  /\ response.transactions = Slice(own, UploadPreview)
            /\ (response.status = HttpOk /\ op.name = "get_quick_insights") =>
                  Summarizes(response.insights, own)
            /\ (response.status = HttpOk /\ op.name = "analyze_transactions") =>
                  LET selected == FilterByTimeframe(own, response.timeframe).value
                      insights == response.insights
                  IN  /\ response.total_transactions_parsed = Len(own)
                      /\ "total_transactions" \in DOMAIN insights =>
                            insights.total_transactions = Len(selected)
                      /\ "total_spend" \in DOMAIN insights =>
                            /\ insights.total_spend = TotalSpend(selected)
                            /\ insights.average_transaction = Mean(selected)
                      /\ "task_data" \in DOMAIN insights =>
                            insights.task_data = Slice(selected, PreviewSize)

\* an analysis of a week of the statement, answered by a handler that was
\* suspended while another handler wrote a batch of records, and while a
\* handler with another file is still suspended
C12_Witness ==
    /\ AfterResume /\ op.name = "analyze_transactions"
    /\ op.overtaken /\ had_records
    /\ \E h \in BagToSet(awaiting) : h.html_content # op.html_content
    /\ ret.value.status = HttpOk
    /\ ret.value.timeframe = StrOne \o StrSpace \o StrWeek
    /\ ret.value.total_transactions_parsed = WeekWindow + 1
    /\ ret.value.insights.total_transactions = WeekWindow

\* C13: a file named *.html that yields no record ends the request with
\* status 400 and the detail "No transactions found in HTML file", and no
\* such request ends with status 500.
C13_NoRecordsIsBadRequest ==
    (AfterResume /\ ParsedUploads[op.html_content] = <<>>) =>
        /\ ret.value.status = HttpBadRequest
        /\ ret.value.detail = "No transactions found in HTML file"

=============================================================================
